---- MODULE Spec2Model ----
(***************************************************************************)
(* Personal Expense Tracker (Streamlit + SQLite): the storage functions of *)
(* expense_tracker.py over the table `expenses`, the monthly resample of   *)
(* the summary, and the render cycle of the Streamlit script.              *)
(*                                                                         *)
(* Text values (tx_date, description) are sequences of one-character       *)
(* strings, so that isoformat(), SQLite's date() and pd.to_datetime() are  *)
(* real conversions.  Amounts are whole currency units.                    *)
(***************************************************************************)
EXTENDS Integers, Sequences, FiniteSets, TLC

VARIABLES
    db,               \* rows of table expenses (a set of records, one per row)
    sqlite_sequence,  \* AUTOINCREMENT counter of table expenses
    df,               \* DataFrame of the latest fetch_expenses (a sequence of rows)
    by_month,         \* the Monthly Trend series of the latest render cycle
    msg,              \* st.warning / st.success outcome of the latest render cycle
    filters,          \* the three filter widgets <<start_date, end_date, filter_category>>
    call,             \* history: the latest operation and its arguments
    dbBefore,         \* history: table expenses when the latest operation began
    deleted           \* history: the ids delete_expense has been called with

vars == <<db, sqlite_sequence, df, by_month, msg, filters, call, dbBefore, deleted>>

(***************************************************************************)
(* Bounds                                                                  *)
(***************************************************************************)
\* cap on the AUTOINCREMENT counter: at most MaxSeq rows are ever inserted
MaxSeq == 3

(***************************************************************************)
(* Text                                                                    *)
(***************************************************************************)
Digits == <<"0", "1", "2", "3", "4", "5", "6", "7", "8", "9">>

DigitSet == {Digits[i] : i \in 1..10}

\* the decimal digit character of n modulo 10
Digit(n) == Digits[(n % 10) + 1]

DigitValue == [c \in DigitSet |-> CHOOSE n \in 0..9 : Digits[n + 1] = c]

DigitVal(c) == DigitValue[c]

\* byte value of a character (SQLite compares TEXT with memcmp)
Code(c) ==
    CASE c = " " -> 32
      [] c = "-" -> 45
      [] c \in DigitSet -> 48 + DigitVal(c)
      [] c = ":" -> 58
      [] c = "T" -> 84
      [] OTHER -> 97

\* memcmp from position i on: a < b for two TEXT values under SQLite's BINARY collation
RECURSIVE TextLessFrom(_, _, _)
TextLessFrom(a, b, i) ==
    IF i > Len(b) THEN FALSE
    ELSE IF i > Len(a) THEN TRUE
    ELSE IF a[i] = b[i] THEN TextLessFrom(a, b, i + 1)
    ELSE Code(a[i]) < Code(b[i])

TextLess(a, b) == TextLessFrom(a, b, 1)

Num2(t, i) == 10 * DigitVal(t[i]) + DigitVal(t[i + 1])

Num4(t, i) == 100 * Num2(t, i) + Num2(t, i + 2)

\* Python's None in a text position, and SQL NULL
None == <<"None">>

NULL == <<"NULL">>

\* Python truthiness of an optional str: None and "" are falsy
Truthy(x) == x /= None /\ x /= <<>>

\* datetime.date.isoformat(): <<y, m, d>> as 'YYYY-MM-DD'
isoformat(d) ==
    << Digit(d[1] \div 1000), Digit(d[1] \div 100), Digit(d[1] \div 10), Digit(d[1]), "-",
       Digit(d[2] \div 10), Digit(d[2]), "-",
       Digit(d[3] \div 10), Digit(d[3]) >>

IsDateText(t) ==
    /\ Len(t) = 10
    /\ \A i \in {1, 2, 3, 4, 6, 7, 9, 10} : t[i] \in DigitSet
    /\ t[5] = "-" /\ t[8] = "-"
    /\ Num2(t, 6) \in 1..12
    /\ Num2(t, 9) \in 1..31

IsTimeText(t) ==
    /\ Len(t) = 5
    /\ \A i \in {1, 2, 4, 5} : t[i] \in DigitSet
    /\ t[3] = ":"
    /\ Num2(t, 1) \in 0..23
    /\ Num2(t, 4) \in 0..59

\* SQLite date(X): the 'YYYY-MM-DD' portion of a date or date-time text,
\* NULL when X is not a time value
date(t) ==
    IF /\ t /= NULL
       /\ Len(t) >= 10
       /\ IsDateText(SubSeq(t, 1, 10))
       /\ \/ Len(t) = 10
          \/ /\ Len(t) > 11
             /\ t[11] \in {" ", "T"}
             /\ IsTimeText(SubSeq(t, 12, Len(t)))
    THEN SubSeq(t, 1, 10)
    ELSE NULL

\* SQL comparisons: a comparison with NULL is NULL, and the row is not selected
SqlGE(a, b) == a /= NULL /\ b /= NULL /\ ~TextLess(a, b)

SqlLE(a, b) == a /= NULL /\ b /= NULL /\ ~TextLess(b, a)

\* ORDER BY key comparison: NULL sorts below every value
KeyLess(a, b) ==
    IF a = NULL THEN b /= NULL
    ELSE IF b = NULL THEN FALSE
    ELSE TextLess(a, b)

\* str.strip()
RECURSIVE strip(_)
strip(t) ==
    IF t = <<>> THEN <<>>
    ELSE IF Head(t) = " " THEN strip(Tail(t))
    ELSE IF t[Len(t)] = " " THEN strip(SubSeq(t, 1, Len(t) - 1))
    ELSE t

\* pd.to_datetime on an ISO text: the calendar date <<y, m, d>>
to_datetime(t) == <<Num4(t, 1), Num2(t, 6), Num2(t, 9)>>

(***************************************************************************)
(* Table expenses                                                          *)
(***************************************************************************)
Ids(table) == {r.id : r \in table}

Range(s) == {s[i] : i \in 1..Len(s)}

MaxOf(S) == IF S = {} THEN 0 ELSE CHOOSE m \in S : \A x \in S : x <= m

\* INTEGER PRIMARY KEY without AUTOINCREMENT: one more than the largest rowid in the table
NextId_NoAutoincrement(table, seq) == MaxOf(Ids(table)) + 1

\* id INTEGER PRIMARY KEY AUTOINCREMENT: one more than the largest rowid the
\* table has ever held (sqlite_sequence)
NextId(table, seq) == MaxOf(Ids(table) \cup {seq}) + 1

\* the INSERT with category and payment_method bound in each other's place
InsertRow_Swapped(table, id, tx_date, category, description, amount, payment_method) ==
    table \cup {[id |-> id, tx_date |-> tx_date, category |-> payment_method,
                 description |-> description, amount |-> amount,
                 payment_method |-> category]}

\* INSERT INTO expenses (tx_date, category, description, amount, payment_method) VALUES (?, ?, ?, ?, ?)
InsertRow(table, id, tx_date, category, description, amount, payment_method) ==
    table \cup {[id |-> id, tx_date |-> tx_date, category |-> category,
                 description |-> description, amount |-> amount,
                 payment_method |-> payment_method]}

\* DELETE FROM expenses WHERE id = ?
DeleteRows(table, expense_id) == {r \in table : r.id /= expense_id}

\* the UPDATE without its WHERE clause: every row is rewritten
UpdateRows_NoWhere(table, expense_id, tx_date, category, description, amount, payment_method) ==
    {[id |-> r.id, tx_date |-> tx_date, category |-> category,
      description |-> description, amount |-> amount,
      payment_method |-> payment_method] : r \in table}

\* INSERT OR REPLACE in place of the UPDATE: a missing id is created
UpdateRows_Upsert(table, expense_id, tx_date, category, description, amount, payment_method) ==
    {r \in table : r.id /= expense_id}
        \cup {[id |-> expense_id, tx_date |-> tx_date, category |-> category,
               description |-> description, amount |-> amount,
               payment_method |-> payment_method]}

\* UPDATE expenses SET tx_date=?, category=?, description=?, amount=?, payment_method=? WHERE id=?
UpdateRows(table, expense_id, tx_date, category, description, amount, payment_method) ==
    {IF r.id = expense_id
     THEN [id |-> r.id, tx_date |-> tx_date, category |-> category,
           description |-> description, amount |-> amount,
           payment_method |-> payment_method]
     ELSE r : r \in table}

\* the WHERE clause with exclusive date bounds
Where_Exclusive(r, start_date, end_date, category) ==
    /\ Truthy(start_date) =>
           SqlGE(date(r.tx_date), date(start_date)) /\ date(r.tx_date) /= date(start_date)
    /\ Truthy(end_date) =>
           SqlLE(date(r.tx_date), date(end_date)) /\ date(r.tx_date) /= date(end_date)
    /\ (category /= "None" /\ category /= "" /\ category /= "All") => r.category = category

\* WHERE 1=1 [AND date(tx_date) >= date(?)] [AND date(tx_date) <= date(?)] [AND category = ?]
\* (the category argument None is the string "None" here: no category has that name)
Where(r, start_date, end_date, category) ==
    /\ Truthy(start_date) => SqlGE(date(r.tx_date), date(start_date))
    /\ Truthy(end_date) => SqlLE(date(r.tx_date), date(end_date))
    /\ (category /= "None" /\ category /= "" /\ category /= "All") => r.category = category

\* ORDER BY date(tx_date) DESC, id ASC
OrderBefore_IdAsc(k1, id1, k2, id2) ==
    \/ KeyLess(k2, k1)
    \/ k1 = k2 /\ id1 < id2

\* ORDER BY date(tx_date) DESC, id DESC: the row with sort key k1 = date(tx_date)
\* and id1 is placed before the row with k2 and id2
OrderBefore(k1, id1, k2, id2) ==
    \/ KeyLess(k2, k1)
    \/ k1 = k2 /\ id1 > id2

\* the rows of `keyed` (each row r paired with its sort key k) in ORDER BY order
RECURSIVE OrderBy(_)
OrderBy(keyed) ==
    IF keyed = {} THEN <<>>
    ELSE LET first == CHOOSE x \in keyed :
                          \A o \in keyed : ~OrderBefore(o.k, o.r.id, x.k, x.r.id)
         IN  <<first.r>> \o OrderBy(keyed \ {first})

\* fetch_expenses(start_date, end_date, category) on the table
fetch_expenses(table, start_date, end_date, category) ==
    OrderBy({[r |-> r, k |-> date(r.tx_date)] :
                 r \in {q \in table : Where(q, start_date, end_date, category)}})

(***************************************************************************)
(* Inputs of the storage functions                                         *)
(***************************************************************************)
\* <<tx_date, category, description, amount, payment_method>>; tx_date is an
\* ISO 8601 date, or date and time; add_expense itself accepts any amount
StoreRows ==
    { <<isoformat(<<2024, 1, 5>>), "Food", <<>>, 100, "UPI">>,
      <<isoformat(<<2024, 1, 20>>) \o <<" ", "0", "9", ":", "3", "0">>, "Transport",
        <<"b", "u", "s">>, 50, "Cash">>,
      <<isoformat(<<2024, 1, 20>>), "Food", <<"b", "u", "s">>, 25, "Cash">>,
      <<isoformat(<<2024, 3, 1>>), "Transport", <<>>, 0, "UPI">> }

\* <<start_date, end_date, category>>: each absent (None), empty, or given
FetchArgs ==
    ({None, isoformat(<<2024, 1, 20>>)} \X {None, isoformat(<<2024, 1, 20>>)}
        \X {"None", "All", "Food"})
    \cup {<< <<>>, <<>>, "" >>}

IdArgs == 1..MaxSeq

NoCall == [op |-> "init_db", id |-> 0, row |-> <<>>, filt |-> <<>>]

(***************************************************************************)
(* The storage functions, called directly                                  *)
(***************************************************************************)
Init ==
    /\ db = {}
    /\ sqlite_sequence = 0
    /\ df = <<>>
    /\ by_month = <<>>
    /\ msg = ""
    /\ filters = <<<<>>, <<>>, "All">>
    /\ call = NoCall
    /\ dbBefore = {}
    /\ deleted = {}

add_expense(tx_date, category, description, amount, payment_method) ==
    /\ sqlite_sequence < MaxSeq
    /\ db' = InsertRow(db, NextId(db, sqlite_sequence),
                       tx_date, category, description, amount, payment_method)
    /\ sqlite_sequence' = NextId(db, sqlite_sequence)
    /\ df' = <<>>
    /\ call' = [op |-> "add_expense", id |-> 0,
                row |-> <<tx_date, category, description, amount, payment_method>>,
                filt |-> <<>>]
    /\ dbBefore' = db
    /\ UNCHANGED <<by_month, msg, filters, deleted>>

fetch(start_date, end_date, category) ==
    /\ df' = fetch_expenses(db, start_date, end_date, category)
    /\ call' = [op |-> "fetch_expenses", id |-> 0, row |-> <<>>,
                filt |-> <<start_date, end_date, category>>]
    /\ dbBefore' = db
    /\ UNCHANGED <<db, sqlite_sequence, by_month, msg, filters, deleted>>

delete_expense(expense_id) ==
    /\ db' = DeleteRows(db, expense_id)
    /\ df' = <<>>
    /\ call' = [op |-> "delete_expense", id |-> expense_id, row |-> <<>>, filt |-> <<>>]
    /\ dbBefore' = db
    /\ UNCHANGED <<sqlite_sequence, by_month, msg, filters>>

update_expense(expense_id, tx_date, category, description, amount, payment_method) ==
    /\ db' = UpdateRows(db, expense_id,
                        tx_date, category, description, amount, payment_method)
    /\ df' = <<>>
    /\ call' = [op |-> "update_expense", id |-> expense_id,
                row |-> <<tx_date, category, description, amount, payment_method>>,
                filt |-> <<>>]
    /\ dbBefore' = db
    /\ UNCHANGED <<sqlite_sequence, by_month, msg, filters, deleted>>

Next ==
    \/ \E w \in StoreRows : add_expense(w[1], w[2], w[3], w[4], w[5])
    \/ \E f \in FetchArgs : fetch(f[1], f[2], f[3])
    \/ \E i \in IdArgs : delete_expense(i) /\ UNCHANGED deleted
    \/ \E i \in IdArgs, w \in StoreRows : update_expense(i, w[1], w[2], w[3], w[4], w[5])

Spec == Init /\ [][Next]_vars

(***************************************************************************)
(* The same functions with the history of delete_expense calls kept:       *)
(* `deleted` records each id delete_expense was called with, and whether   *)
(* that id had been assigned by an INSERT before the call.                 *)
(***************************************************************************)
IdRows == {w \in StoreRows : w[2] = "Food"}

LogDelete(expense_id) ==
    deleted' = deleted \cup {[id |-> expense_id,
                              assigned |-> expense_id <= sqlite_sequence]}

NextIds ==
    \/ \E w \in IdRows : add_expense(w[1], w[2], w[3], w[4], w[5])
    \/ \E i \in IdArgs : delete_expense(i) /\ LogDelete(i)
    \/ \E i \in IdArgs, w \in IdRows : update_expense(i, w[1], w[2], w[3], w[4], w[5])

SpecIds == Init /\ [][NextIds]_vars

(***************************************************************************)
(* Properties of the storage functions                                     *)
(***************************************************************************)
\* the unfiltered list of a table
ListAll(table) == fetch_expenses(table, None, None, "None")

\* the five mutable fields of a row
Fields(r) == <<r.tx_date, r.category, r.description, r.amount, r.payment_method>>

\* the calendar day of the date-portion of an ISO text, as the number yyyymmdd
DayNumber(t) == 10000 * Num4(t, 1) + 100 * Num2(t, 6) + Num2(t, 9)

\* C1: after add_expense with amount > 0, the unfiltered list holds every row
\* it held before plus exactly one new row; the new row carries the five
\* inputs and an id no other row has.
C1_CreateThenList ==
    (call.op = "add_expense" /\ call.row[4] > 0) =>
        LET before == Range(ListAll(dbBefore))
            after  == Range(ListAll(db))
            new    == after \ before
        IN  /\ before \subseteq after
            /\ Len(ListAll(db)) = Len(ListAll(dbBefore)) + 1
            /\ Cardinality(new) = 1
            /\ \A n \in new :
                   /\ Fields(n) = call.row
                   /\ \A r \in after \ {n} : r.id /= n.id

\* a row is added to a table that holds rows and has lost one
C1_Witness ==
    /\ call.op = "add_expense"
    /\ call.row[4] > 0
    /\ dbBefore /= {}
    /\ Cardinality(db) < sqlite_sequence

\* C3: after update_expense on a stored id i, the unfiltered list holds a row
\* with id i whose five fields are the supplied values; the set of ids is the
\* same and every row with another id is unchanged.
C3_UpdateThenList ==
    (call.op = "update_expense" /\ call.id \in Ids(dbBefore)) =>
        LET after == Range(ListAll(db))
        IN  /\ \E r \in after : r.id = call.id /\ Fields(r) = call.row
            /\ \A r \in after : r.id = call.id => Fields(r) = call.row
            /\ Ids(after) = Ids(dbBefore)
            /\ \A r \in dbBefore : r.id /= call.id => r \in after
            /\ Len(ListAll(db)) = Cardinality(dbBefore)

\* a stored row is changed by update_expense while another row is stored
C3_Witness ==
    /\ call.op = "update_expense"
    /\ call.id \in Ids(dbBefore)
    /\ db /= dbBefore
    /\ \E r \in dbBefore : r.id /= call.id /\ Fields(r) /= call.row

\* C8: delete_expense and update_expense on an id that is not stored leave
\* the list as it was and create no row with that id.
C8_MissingIdNoOp ==
    (call.op \in {"delete_expense", "update_expense"} /\ call.id \notin Ids(dbBefore)) =>
        /\ ListAll(db) = ListAll(dbBefore)
        /\ \A r \in Range(ListAll(db)) : r.id /= call.id

\* update_expense is called with an id that is not in a non-empty table
C8_Witness ==
    /\ call.op = "update_expense"
    /\ call.id \notin Ids(dbBefore)
    /\ dbBefore /= {}

\* the filter of the claim: an omitted or empty bound and the sentinel impose
\* no restriction; the bounds are inclusive and compare calendar days
Matches(r, start_date, end_date, category) ==
    /\ (start_date /= None /\ start_date /= <<>>) =>
           DayNumber(r.tx_date) >= DayNumber(start_date)
    /\ (end_date /= None /\ end_date /= <<>>) =>
           DayNumber(r.tx_date) <= DayNumber(end_date)
    /\ category \notin {"None", "", "All"} => r.category = category

\* C4: fetch_expenses returns exactly the stored rows that satisfy every
\* supplied filter, each once; with nothing matching it returns the empty frame.
C4_ListFilters ==
    call.op = "fetch_expenses" =>
        LET want == {r \in db : Matches(r, call.filt[1], call.filt[2], call.filt[3])}
        IN  /\ Range(df) = want
            /\ Len(df) = Cardinality(want)
            /\ (want = {} => df = <<>>)

\* both bounds given: a row with a time part on the bound's day is returned,
\* and a stored row outside the range is not
C4_Witness ==
    /\ call.op = "fetch_expenses"
    /\ Truthy(call.filt[1])
    /\ Truthy(call.filt[2])
    /\ \E i \in 1..Len(df) : Len(df[i].tx_date) > 10
    /\ Len(df) < Cardinality(db)

\* C5: the returned rows are in descending order of the date-portion of
\* tx_date and, on the same date, in descending order of id.
C5_ListOrder ==
    call.op = "fetch_expenses" =>
        \A i \in 1..(Len(df) - 1) :
            \/ DayNumber(df[i].tx_date) > DayNumber(df[i + 1].tx_date)
            \/ /\ DayNumber(df[i].tx_date) = DayNumber(df[i + 1].tx_date)
               /\ df[i].id > df[i + 1].id

\* three rows are returned, two of them on the same day, and the order is
\* not the order of the ids
C5_Witness ==
    /\ call.op = "fetch_expenses"
    /\ Len(df) >= 3
    /\ \E i \in 1..(Len(df) - 1) : DayNumber(df[i].tx_date) = DayNumber(df[i + 1].tx_date)
    /\ \E i \in 1..(Len(df) - 1) : df[i].id < df[i + 1].id

\* C2 as stated: an id delete_expense was called with is never listed again.
C2_DeletedNeverListed ==
    \A d \in deleted : \A r \in Range(ListAll(db)) : r.id /= d.id

\* C2, amended: an id that had been assigned by an INSERT when delete_expense
\* was called with it is never listed again.
C2_AssignedDeletedNeverListed ==
    \A d \in deleted : d.assigned => \A r \in Range(ListAll(db)) : r.id /= d.id

\* a row is added to the empty table after an assigned id was deleted
C2_Witness ==
    /\ call.op = "add_expense"
    /\ dbBefore = {}
    /\ \E d \in deleted : d.assigned /\ d.id < sqlite_sequence

(***************************************************************************)
(* The Streamlit script: one run per user interaction                      *)
(***************************************************************************)
\* df['tx_date'] = pd.to_datetime(df['tx_date'])
ToDatetimeFrame(frame) ==
    [i \in 1..Len(frame) |-> [frame[i] EXCEPT !.tx_date = to_datetime(frame[i].tx_date)]]

MonthIndex(d) == 12 * d[1] + (d[2] - 1)

\* the month-start label of a month
MonthStart(k) == <<k \div 12, (k % 12) + 1, 1>>

\* the sum of amount over the rows of the frame that lie in month k
RECURSIVE MonthSum(_, _)
MonthSum(frame, k) ==
    IF frame = <<>> THEN 0
    ELSE (IF MonthIndex(Head(frame).tx_date) = k THEN Head(frame).amount ELSE 0)
             + MonthSum(Tail(frame), k)

MinOf(S) == CHOOSE m \in S : \A x \in S : m <= x

\* df.groupby(month)['amount'].sum(): an entry for the months that hold a row
groupby_month_sum(frame) ==
    LET months == {MonthIndex(frame[i].tx_date) : i \in 1..Len(frame)}
        Nth[n \in 1..Cardinality(months)] ==
            CHOOSE k \in months : Cardinality({j \in months : j < k}) = n - 1
    IN  [n \in 1..Cardinality(months) |->
            [Month |-> MonthStart(Nth[n]), Spend |-> MonthSum(frame, Nth[n])]]

\* df.set_index('tx_date').resample('MS')['amount'].sum().reset_index(): one bin
\* for every month from the first row's month to the last row's month
resample_MS_sum(frame) ==
    IF frame = <<>> THEN <<>>
    ELSE LET months == {MonthIndex(frame[i].tx_date) : i \in 1..Len(frame)}
             lo == MinOf(months)
             hi == MaxOf(months)
         IN  [n \in 1..(hi - lo + 1) |->
                 [Month |-> MonthStart(lo + n - 1), Spend |-> MonthSum(frame, lo + n - 1)]]

\* start_date.isoformat() if isinstance(start_date, date) else None
\* (an empty date_input is <<>>)
DateStr(d) == IF d = <<>> THEN None ELSE isoformat(d)

\* df = fetch_expenses(start_str, end_str, filter_category), then the
\* to_datetime conversion of the summary block
Fetched(table, f) ==
    ToDatetimeFrame(fetch_expenses(table, DateStr(f[1]), DateStr(f[2]), f[3]))

\* the add form's check with the comparison strict
Rejected_Negative(amount) == amount < 0

\* if amount <= 0: st.warning("Amount must be greater than 0.")
Rejected(amount) == amount <= 0

\* widget values <<date, category, description, amount, payment_method>>;
\* number_input has min_value=0.0
FormInputs ==
    { << <<2024, 1, 20>>, "Transport", <<" ", "b", "u", "s", " ">>, 50, "Cash" >>,
      << <<2024, 3, 1>>, "Food", <<>>, 25, "UPI" >>,
      << <<2023, 12, 31>>, "Food", <<>>, 0, "Cash" >> }

\* <<start_date, end_date, filter_category>> of the filter widgets
FilterChoices ==
    ({<<>>, <<2024, 1, 20>>} \X {<<>>, <<2024, 1, 20>>} \X {"All"})
    \cup {<< <<>>, <<>>, "Food" >>}

\* a run caused by a filter widget (or a page load): nothing is written
Rerun(f) ==
    /\ filters' = f
    /\ df' = Fetched(db, f)
    /\ by_month' = resample_MS_sum(df')
    /\ msg' = ""
    /\ call' = [op |-> "rerun", id |-> 0, row |-> <<>>, filt |-> <<>>]
    /\ dbBefore' = db
    /\ UNCHANGED <<db, sqlite_sequence, deleted>>

\* a run caused by the Add button of add_expense_form: the form block runs
\* before the fetch_expenses call of the script
SubmitAdd(w) ==
    /\ Rejected(w[4]) \/ sqlite_sequence < MaxSeq
    /\ IF Rejected(w[4])
       THEN /\ msg' = "warning"
            /\ UNCHANGED <<db, sqlite_sequence>>
       ELSE /\ db' = InsertRow(db, NextId(db, sqlite_sequence),
                               isoformat(w[1]), w[2], strip(w[3]), w[4], w[5])
            /\ sqlite_sequence' = NextId(db, sqlite_sequence)
            /\ msg' = "success"
    /\ df' = Fetched(db', filters)
    /\ by_month' = resample_MS_sum(df')
    /\ call' = [op |-> "add_form", id |-> 0, row |-> w, filt |-> <<>>]
    /\ dbBefore' = db
    /\ UNCHANGED <<filters, deleted>>

\* a run caused by the Update button: the script has fetched df and drawn the
\* summary; the selectbox offers the ids of df, the edit widgets any value
ClickUpdate ==
    /\ df' = Fetched(db, filters)
    /\ by_month' = resample_MS_sum(df')
    /\ df' /= <<>>
    /\ \E selected_id \in Ids(Range(df')), w \in FormInputs :
           /\ db' = UpdateRows(db, selected_id,
                               isoformat(w[1]), w[2], w[3], w[4], w[5])
           /\ call' = [op |-> "update_button", id |-> selected_id, row |-> w,
                       filt |-> <<>>]
    /\ msg' = "success"
    /\ dbBefore' = db
    /\ UNCHANGED <<sqlite_sequence, filters, deleted>>

\* the Delete run with the table queried again after the DELETE
ClickDelete_Refetch ==
    /\ Fetched(db, filters) /= <<>>
    /\ \E del_id \in Ids(Range(Fetched(db, filters))) :
           /\ db' = DeleteRows(db, del_id)
           /\ call' = [op |-> "delete_button", id |-> del_id, row |-> <<>>,
                       filt |-> <<>>]
    /\ df' = Fetched(db', filters)
    /\ by_month' = resample_MS_sum(df')
    /\ msg' = "success"
    /\ dbBefore' = db
    /\ UNCHANGED <<sqlite_sequence, filters, deleted>>

\* a run caused by the Delete button: the script has fetched df and drawn the
\* summary; the selectbox offers the ids of df
ClickDelete ==
    /\ df' = Fetched(db, filters)
    /\ by_month' = resample_MS_sum(df')
    /\ df' /= <<>>
    /\ \E del_id \in Ids(Range(df')) :
           /\ db' = DeleteRows(db, del_id)
           /\ call' = [op |-> "delete_button", id |-> del_id, row |-> <<>>,
                       filt |-> <<>>]
    /\ msg' = "success"
    /\ dbBefore' = db
    /\ UNCHANGED <<sqlite_sequence, filters, deleted>>

NextUI ==
    \/ \E f \in FilterChoices : Rerun(f)
    \/ \E w \in FormInputs : SubmitAdd(w)
    \/ ClickUpdate
    \/ ClickDelete

SpecUI == Init /\ [][NextUI]_vars

(***************************************************************************)
(* Properties of the script                                                *)
(***************************************************************************)
\* the calendar month of a date <<y, m, d>>, as a number
MonthNo(d) == 12 * d[1] + d[2]

RECURSIVE SumAmounts(_)
SumAmounts(rows) ==
    IF rows = {} THEN 0
    ELSE LET r == CHOOSE x \in rows : TRUE
         IN  r.amount + SumAmounts(rows \ {r})

RowsInMonth(frame, k) == {r \in Range(frame) : MonthNo(r.tx_date) = k}

PopulatedMonths(frame) == {MonthNo(r.tx_date) : r \in Range(frame)}

\* C6 as stated: by_month has an entry for exactly the months that hold a
\* row, in ascending order, each with the sum of the amounts of its rows.
C6_OnlyPopulatedMonths ==
    /\ {MonthNo(e.Month) : e \in Range(by_month)} = PopulatedMonths(df)
    /\ \A n \in 1..(Len(by_month) - 1) :
           MonthNo(by_month[n].Month) < MonthNo(by_month[n + 1].Month)
    /\ \A n \in 1..Len(by_month) :
           by_month[n].Spend = SumAmounts(RowsInMonth(df, MonthNo(by_month[n].Month)))

\* C6, amended: by_month has one entry for every calendar month from the
\* earliest month that holds a row to the latest one, in ascending order,
\* labelled with the first day of the month, each with the sum of the amounts
\* of its rows: a month in between that holds no row is present with sum 0.
C6_EveryMonthFirstToLast ==
    IF df = <<>> THEN by_month = <<>>
    ELSE LET lo == MinOf(PopulatedMonths(df))
             hi == MaxOf(PopulatedMonths(df))
         IN  /\ Len(by_month) = hi - lo + 1
             /\ \A n \in 1..Len(by_month) :
                    /\ MonthNo(by_month[n].Month) = lo + n - 1
                    /\ by_month[n].Month[2] \in 1..12
                    /\ by_month[n].Month[3] = 1
                    /\ by_month[n].Spend = SumAmounts(RowsInMonth(df, lo + n - 1))

\* the series spans a year end and has an entry for a month that holds no row
C6_Witness ==
    /\ Len(by_month) >= 4
    /\ by_month[1].Month[1] < by_month[Len(by_month)].Month[1]
    /\ \E n \in 1..Len(by_month) :
           /\ RowsInMonth(df, MonthNo(by_month[n].Month)) = {}
           /\ by_month[n].Spend = 0

\* C7: an Add submission with amount <= 0 ends in the warning and writes
\* nothing: the table and its list are what they were.
C7_RejectedSubmission ==
    (call.op = "add_form" /\ call.row[4] <= 0) =>
        /\ msg = "warning"
        /\ db = dbBefore
        /\ ListAll(db) = ListAll(dbBefore)

\* the form is submitted with amount 0 while rows are stored
C7_Witness ==
    /\ call.op = "add_form"
    /\ call.row[4] <= 0
    /\ msg = "warning"
    /\ db /= {}

\* C9: every stored row has amount > 0.
C9_StoredAmountsPositive == \A r \in db : r.amount > 0

\* C10 as stated: in the run of a create, an update or a delete, df is the
\* result of the query on the table as it was before the write.
C10_StaleAfterEveryWrite ==
    (call.op \in {"update_button", "delete_button"}
        \/ (call.op = "add_form" /\ msg = "success")) =>
        df = Fetched(dbBefore, filters)

\* C10, amended: in the run of an update or a delete, df is the result of the
\* query on the table as it was before the write; in the run of a create, df
\* is the result of the query on the table after the insert.
C10_StaleAfterUpdateDelete ==
    /\ call.op \in {"update_button", "delete_button"} => df = Fetched(dbBefore, filters)
    /\ (call.op = "add_form" /\ msg = "success") => df = Fetched(db, filters)

\* after the Delete run the displayed frame still shows the deleted row
C10_Witness ==
    /\ call.op = "delete_button"
    /\ call.id \in Ids(Range(df))
    /\ call.id \notin Ids(db)
    /\ df /= Fetched(db, filters)

====
